---- MODULE Spec2Model ----
(***************************************************************************)
(* Templator.js: three command-line front ends around the Markup.js        *)
(* renderer.                                                               *)
(*   "simple"   = src/src/templator.js   (run-markup style, one template)  *)
(*   "enhanced" = src/unnamed/part_001   (config file, embedded config,    *)
(*                                        directory mode)                  *)
(*   "merged"   = src/unnamed/part_000   (minimist, recursive directory    *)
(*                                        mode, .script execution, zip)    *)
(* One behaviour is one run of one front end.  The renderer (Mark.up) is   *)
(* an external library: a call either returns a string or throws.          *)
(* Diagnostics (console.log, console.error) and the final chmodSync of the *)
(* script file are not part of the state; stdout holds what                *)
(* process.stdout.write received.                                          *)
(***************************************************************************)
EXTENDS Integers, Sequences, FiniteSets, TLC

(***************************************************************************)
(* JavaScript values.  Every value is a record [t, v] whose tag t is the   *)
(* JavaScript type.                                                        *)
(***************************************************************************)
Undefined == [t |-> "undefined", v |-> <<>>]
Str(s) == [t |-> "string", v |-> s]
Bool(b) == [t |-> "boolean", v |-> b]
Arr(s) == [t |-> "array", v |-> s]
Obj(f) == [t |-> "object", v |-> f]
Null == [t |-> "null", v |-> <<>>]
EmptyObj == Obj(<<>>)

\* ToBoolean, as used by  !x,  x || y,  if (x)
Truthy(j) ==
  CASE j.t = "undefined" -> FALSE
    [] j.t = "null" -> FALSE
    [] j.t = "string" -> j.v # ""
    [] j.t = "boolean" -> j.v
    [] OTHER -> TRUE

\* x || y
Or(x, y) == IF Truthy(x) THEN x ELSE y

\* o[k] for an object o; undefined for a key that is not there
Get(o, k) == IF o.t = "object" /\ k \in DOMAIN o.v THEN o.v[k] ELSE Undefined

\* o[k] = val
Put(o, k, val) == Obj([x \in DOMAIN o.v \cup {k} |-> IF x = k THEN val ELSE o.v[x]])

\* delete o[k]
Delete(o, k) == Obj([x \in DOMAIN o.v \ {k} |-> o.v[x]])

Keys(o) == IF o.t = "object" THEN DOMAIN o.v ELSE {}

(***************************************************************************)
(* Paths are sequences of names.                                           *)
(***************************************************************************)
Join(dir, name) == Append(dir, name)
Basename(p) == p[Len(p)]
Dirname(p) == SubSeq(p, 1, Len(p) - 1)
PathOf(j) == <<j.v>>

(***************************************************************************)
(* The files the run finds on disk.                                        *)
(***************************************************************************)
MaxFiles == 2
MaxSub == 1
FileNames == <<"page.tpl", "a.tpl", "run.script", "b.tpl">>
TopFiles == SubSeq(FileNames, 1, MaxFiles)
SubFiles == SubSeq(FileNames, 1, MaxSub)

\* a file that cannot be read or is not JSON
Invalid == [t |-> "invalid", v |-> <<>>]

Delims(o, c) == Obj([delimiters |-> Obj([open |-> Str(o), close |-> Str(c)])])
FileCfg(o, c) == Obj([openDelimiter |-> Str(o), closeDelimiter |-> Str(c)])

ConfigDocs ==
  << Invalid,
     EmptyObj,
     Obj([x \in {"templator-js"} |->
            Obj([options |-> Delims("<%", "%>"),
                 files |-> Obj([x2 \in {"page.tpl"} |-> FileCfg("[[", "]]")])])]),
     Obj([options |-> Obj([delimiters |-> Obj([open |-> Str("<%")])]),
          files |-> Obj([x2 \in {"a.tpl"} |-> FileCfg("[[", "]]")])]),
     Obj([options |-> Delims("", "%>")]) >>

InfoDocs ==
  << Invalid,
     Obj([name |-> Str("World")]),
     Obj([name |-> Str("World"), items |-> Str("x")]),
     Obj([items |-> Arr(<<Str("a"), Str("b")>>)]),
     Obj([x \in {"templator-js", "name", "items"} |->
            CASE x = "name" -> Str("World")
              [] x = "items" -> Str("x")
              [] OTHER -> Obj([options |-> Delims("((", "))"),
                               files |-> Obj([x2 \in {"page.tpl"} |-> FileCfg("<?", "?>")])])]),
     Obj([options |-> Obj([delimiters |-> Obj([open |-> Str("((")])]),
          files |-> Obj([x2 \in {"a.tpl"} |-> FileCfg("<?", "?>")]),
          name |-> Str("World")]),
     Obj([x \in {"templator-js", "options"} |->
            IF x = "options" THEN Str("fast")
            ELSE Obj([options |-> Obj([delimiters |-> Obj([close |-> Str("))")])])])]),
     Obj([options |-> Delims("((", "))"), name |-> Str("World")]) >>

\* fs.existsSync / fs.statSync on the source side
SourceDirs == {<<"tpls">>, <<"tpls", "sub">>, <<".">>, <<".", "sub">>}
IsSourceDir(p) == p \in SourceDirs
ReadDir(p) ==
  IF Len(p) = 1 THEN <<TopFiles[1], "sub">> \o SubSeq(TopFiles, 2, Len(TopFiles))
  ELSE SubFiles
SourceExists(p) == IsSourceDir(p) \/ p = <<"page.tpl">>

(***************************************************************************)
(* Command lines.                                                          *)
(***************************************************************************)
SimpleArgv ==
  << <<"info.json", "page.tpl">>,
     <<"info.json", "page.tpl", "out.txt">>,
     <<"-o", "<%", "-c", "%>", "info.json", "page.tpl", "out.txt">>,
     <<"info.json", "page.tpl", "-c", "%>", "-o", "<%">>,
     <<"info.json", "page.tpl", "out.txt", "-o">>,
     <<"--closeDelimiter", "", "info.json", "page.tpl">>,
     <<"info.json">> >>

EnhancedArgv ==
  << <<"info.json", "page.tpl">>,
     <<"info.json", "page.tpl", "out.txt">>,
     <<"-f", "cfg.json", "info.json", "page.tpl", "out.txt">>,
     <<"-f", "cfg.json", "info.json", "page.tpl">>,
     <<"-o", "<%", "-c", "%>", "-f", "cfg.json", "info.json", "page.tpl", "out.txt">>,
     <<"info.json", "page.tpl", "out.txt", "-f", "cfg.json", "-c", "%>", "-o", "<%">>,
     <<"info.json", "page.tpl", "out.txt", "-o">>,
     <<"--closeDelimiter", "", "info.json", "page.tpl", "out.txt">>,
     <<"-f", "cfg.json", "-t", "tpls", "-d", "outd", "info.json">>,
     <<"info.json", "--outputDir", "outd", "--templateDir", "tpls", "-o", "<%">>,
     <<"-t", "tpls", "info.json">>,
     <<"-t", "nodir", "-d", "outd", "info.json">>,
     <<"info.json">> >>

MergedArgv ==
  << <<"--configuration", "info.json", "--templates", "page.tpl">>,
     <<"--configuration", "info.json", "--templates", "page.tpl", "--destination", "out.txt">>,
     <<"-f", "cfg.json", "--configuration", "info.json", "--templates", "page.tpl",
       "--destination", "out.txt", "-o", "<%", "-c", "%>">>,
     <<"--closeDelimiter", "%>", "--templates", "page.tpl", "--config", "cfg.json",
       "--configuration", "info.json", "-d", "out.txt">>,
     <<"--configuration", "info.json", "--templates", "page.tpl", "-d", "out.txt", "-o">>,
     <<"-f", "cfg.json", "--configuration", "info.json", "-t", "tpls", "-d", "outd">>,
     <<"--configuration", "info.json", "--templateDir", "tpls", "--outputDir", "outd", "--zip">>,
     <<"--configuration", "info.json", "--templates", "nope.tpl">>,
     <<"--templates", "page.tpl", "--destination", "out.txt", "--name", "World">>,
     <<"--configuration", "info.json", "--templates", "page.tpl", "--destination", "">>,
     <<"--help">> >>

ArgvOf(f) ==
  CASE f = "simple" -> SimpleArgv
    [] f = "enhanced" -> EnhancedArgv
    [] OTHER -> MergedArgv

VARIABLES
  fe,          \* which front end runs
  argv,        \* process.argv.slice(2)
  configDoc,   \* content of cfg.json
  infoDoc,     \* content of info.json
  pc,          \* position in the script
  exitCode,    \* process exit status; -1 while running
  params,      \* parsed arguments
  globalOpenDelimiter,
  globalCloseDelimiter,
  config,      \* config / tplConfig
  context,     \* context handed to the renderer
  template,    \* the template read by the simple front end
  output,      \* the rendering held between render and write
  todo,        \* entries of the directory walk still to visit
  successCount,
  files,       \* output files: path -> content
  dirs,        \* output directories created
  stdout,      \* what was written to process.stdout
  execd,       \* rendered .script texts handed to shell.exec
  zips,        \* directories zipped
  report,      \* final "processed n of m" message, if any
  lastCall,    \* arguments of the latest Mark.up call
  lastOutcome, \* what the latest step did with its template
  failure,     \* failure that decided the end of the run
  failed,      \* templates of a directory run that failed
  attempted,   \* templates of a directory run handed to the per-file code
  taken        \* top-level keys of the context document read as settings

vars == <<fe, argv, configDoc, infoDoc, pc, exitCode, params, globalOpenDelimiter,
          globalCloseDelimiter, config, context, template, output, todo,
          successCount, files, dirs, stdout, execd, zips, report, lastCall,
          lastOutcome, failure, failed, attempted, taken>>

world == <<fe, argv, configDoc, infoDoc>>

NoCall == [tpl |-> <<>>, ctx |-> Undefined, od |-> Undefined, cd |-> Undefined, opts |-> FALSE]
Outcomes == {"ok", "readFail", "renderFail", "writeFail"}

Init ==
  /\ fe \in {"simple", "enhanced", "merged"}
  /\ \E i \in 1..Len(ArgvOf(fe)) : argv = ArgvOf(fe)[i]
  /\ \E i \in 1..Len(ConfigDocs) : configDoc = ConfigDocs[i]
  /\ \E i \in 1..Len(InfoDocs) : infoDoc = InfoDocs[i]
  /\ pc = "start"
  /\ exitCode = -1
  /\ params = EmptyObj
  /\ globalOpenDelimiter = Str("{{")
  /\ globalCloseDelimiter = Str("}}")
  /\ config = Obj([files |-> EmptyObj])
  /\ context = Undefined
  /\ template = <<>>
  /\ output = Undefined
  /\ todo = <<>>
  /\ successCount = 0
  /\ files = <<>>
  /\ dirs = {}
  /\ stdout = <<>>
  /\ execd = {}
  /\ zips = {}
  /\ report = <<>>
  /\ lastCall = NoCall
  /\ lastOutcome = "none"
  /\ failure = "none"
  /\ failed = {}
  /\ attempted = {}
  /\ taken = {}

(***************************************************************************)
(* Helpers shared by the front ends.                                       *)
(***************************************************************************)
\* argv[i]; undefined past the end
ArgAt(av, i) == IF i >= 1 /\ i <= Len(av) THEN Str(av[i]) ELSE Undefined

\* fs.readFileSync + JSON.parse; Invalid when either throws
ReadJson(p) ==
  CASE p = <<"info.json">> -> infoDoc
    [] p = <<"cfg.json">> -> configDoc
    [] OTHER -> Invalid

\* the string Mark.up returns for a template under a delimiter pair
Rendered(tpl, od, cd) == [t |-> "string", v |-> <<tpl, od, cd>>]

\* fs.writeFileSync(p, content)
WriteFile(fsys, p, content) ==
  [x \in DOMAIN fsys \cup {p} |-> IF x = p THEN content ELSE fsys[x]]

\* if (context.items === undefined) ... else if (!(context.items instanceof Array)) ...
NormalizeItems(ctx) ==
  IF Get(ctx, "items") = Undefined THEN Put(ctx, "items", Arr(<<>>))
  ELSE IF Get(ctx, "items").t # "array" THEN Put(ctx, "items", Arr(<<Get(ctx, "items")>>))
  ELSE ctx

\* if (cfg.options && cfg.options.delimiters) { if (cfg.options.delimiters[k]) global = ... }
DelimiterFrom(cfg, k, current) ==
  IF /\ Truthy(Get(cfg, "options"))
     /\ Truthy(Get(Get(cfg, "options"), "delimiters"))
     /\ Truthy(Get(Get(Get(cfg, "options"), "delimiters"), k))
  THEN Get(Get(Get(cfg, "options"), "delimiters"), k)
  ELSE current

\* config = configObj['templator-js'] or configObj; config.files defaults to {}
ConfigFrom(configObj) ==
  LET c == IF Truthy(Get(configObj, "templator-js")) THEN Get(configObj, "templator-js")
           ELSE configObj
  IN IF Truthy(Get(c, "files")) THEN c ELSE Put(c, "files", EmptyObj)

(***************************************************************************)
(* Front end "simple": src/src/templator.js                                *)
(***************************************************************************)
RECURSIVE SimpleParse(_, _, _)
SimpleParse(av, i, acc) ==
  IF i > Len(av) THEN acc
  ELSE IF av[i] \in {"--openDelimiter", "-o"}
       THEN SimpleParse(av, i + 2, [acc EXCEPT !.openDelimiter = ArgAt(av, i + 1)])
  ELSE IF av[i] \in {"--closeDelimiter", "-c"}
       THEN SimpleParse(av, i + 2, [acc EXCEPT !.closeDelimiter = ArgAt(av, i + 1)])
  ELSE SimpleParse(av, i + 1, [acc EXCEPT !.files = Append(@, av[i])])

Simple_ParseArgs ==
  /\ pc = "start" /\ fe = "simple"
  /\ LET p == SimpleParse(argv, 1, [openDelimiter |-> Str("{{"),
                                    closeDelimiter |-> Str("}}"), files |-> <<>>])
         infoPath == ArgAt(p.files, 1)
         templatePath == ArgAt(p.files, 2)
         outPath == ArgAt(p.files, 3)
     IN /\ params' = Obj([infoPath |-> infoPath, templatePath |-> templatePath,
                          outPath |-> outPath])
        /\ globalOpenDelimiter' = p.openDelimiter
        /\ globalCloseDelimiter' = p.closeDelimiter
        /\ IF ~Truthy(infoPath) \/ ~Truthy(templatePath)
           THEN pc' = "exit" /\ exitCode' = 1 /\ failure' = "usage"
           ELSE pc' = "context" /\ UNCHANGED <<exitCode, failure>>
  /\ lastOutcome' = "none"
  /\ UNCHANGED <<world, config, context, template, output, todo, successCount, files,
                 dirs, stdout, execd, zips, report, lastCall, failed, attempted, taken>>

Simple_LoadContext ==
  /\ pc = "context" /\ fe = "simple"
  /\ LET doc == ReadJson(PathOf(Get(params, "infoPath")))
     IN IF doc = Invalid
        THEN /\ pc' = "exit" /\ exitCode' = 2 /\ failure' = "context"
             /\ UNCHANGED context
        ELSE /\ context' = NormalizeItems(doc)
             /\ pc' = "template"
             /\ UNCHANGED <<exitCode, failure>>
  /\ lastOutcome' = "none"
  /\ UNCHANGED <<world, params, globalOpenDelimiter, globalCloseDelimiter, config,
                 template, output, todo, successCount, files, dirs, stdout, execd,
                 zips, report, lastCall, failed, attempted, taken>>

Simple_ReadTemplate ==
  /\ pc = "template" /\ fe = "simple"
  /\ \E ok \in BOOLEAN :
       IF ok
       THEN /\ template' = PathOf(Get(params, "templatePath"))
            /\ pc' = "render" /\ lastOutcome' = "none"
            /\ UNCHANGED <<exitCode, failure>>
       ELSE /\ pc' = "exit" /\ exitCode' = 3 /\ failure' = "read"
            /\ lastOutcome' = "readFail"
            /\ UNCHANGED template
  /\ UNCHANGED <<world, params, globalOpenDelimiter, globalCloseDelimiter, config,
                 context, output, todo, successCount, files, dirs, stdout, execd,
                 zips, report, lastCall, failed, attempted, taken>>

Simple_Render ==
  /\ pc = "render" /\ fe = "simple"
  /\ lastCall' = [tpl |-> template, ctx |-> context, od |-> globalOpenDelimiter,
                  cd |-> globalCloseDelimiter, opts |-> TRUE]
  /\ \E ok \in BOOLEAN :
       IF ok
       THEN /\ output' = Rendered(template, globalOpenDelimiter, globalCloseDelimiter)
            /\ pc' = "write" /\ lastOutcome' = "rendered"
            /\ UNCHANGED <<exitCode, failure>>
       ELSE /\ pc' = "exit" /\ exitCode' = 4 /\ failure' = "render"
            /\ lastOutcome' = "renderFail"
            /\ UNCHANGED output
  /\ UNCHANGED <<world, params, globalOpenDelimiter, globalCloseDelimiter, config,
                 context, template, todo, successCount, files, dirs, stdout, execd,
                 zips, report, failed, attempted, taken>>

Simple_Write ==
  /\ pc = "write" /\ fe = "simple"
  /\ IF Truthy(Get(params, "outPath"))
     THEN \E ok \in BOOLEAN :
            IF ok
            THEN /\ files' = WriteFile(files, PathOf(Get(params, "outPath")), output)
                 /\ pc' = "exit" /\ exitCode' = 0 /\ lastOutcome' = "ok"
                 /\ UNCHANGED <<failure, stdout>>
            ELSE /\ pc' = "exit" /\ exitCode' = 5 /\ failure' = "write"
                 /\ lastOutcome' = "writeFail"
                 /\ UNCHANGED <<files, stdout>>
     ELSE /\ stdout' = Append(stdout, output)
          /\ pc' = "exit" /\ exitCode' = 0 /\ lastOutcome' = "ok"
          /\ UNCHANGED <<failure, files>>
  /\ UNCHANGED <<world, params, globalOpenDelimiter, globalCloseDelimiter, config,
                 context, template, output, todo, successCount, dirs, execd, zips,
                 report, lastCall, failed, attempted, taken>>

(***************************************************************************)
(* Front end "enhanced": src/unnamed/part_001                              *)
(***************************************************************************)
RECURSIVE EnhancedParse(_, _, _)
EnhancedParse(av, i, acc) ==
  IF i > Len(av) THEN acc
  ELSE IF av[i] \in {"--config", "-f"}
       THEN EnhancedParse(av, i + 2, [acc EXCEPT !.configPath = ArgAt(av, i + 1)])
  ELSE IF av[i] \in {"--openDelimiter", "-o"}
       THEN EnhancedParse(av, i + 2, [acc EXCEPT !.globalOpenDelimiter = ArgAt(av, i + 1)])
  ELSE IF av[i] \in {"--closeDelimiter", "-c"}
       THEN EnhancedParse(av, i + 2, [acc EXCEPT !.globalCloseDelimiter = ArgAt(av, i + 1)])
  ELSE IF av[i] \in {"--templateDir", "-t"}
       THEN EnhancedParse(av, i + 2, [acc EXCEPT !.templateDir = ArgAt(av, i + 1),
                                                 !.isDirectoryMode = Bool(TRUE)])
  ELSE IF av[i] \in {"--outputDir", "-d"}
       THEN EnhancedParse(av, i + 2, [acc EXCEPT !.outputDir = ArgAt(av, i + 1)])
  ELSE IF ~Truthy(acc.infoPath)
       THEN EnhancedParse(av, i + 1, [acc EXCEPT !.infoPath = Str(av[i])])
  ELSE IF ~Truthy(acc.templatePath)
       THEN EnhancedParse(av, i + 1, [acc EXCEPT !.templatePath = Str(av[i])])
  ELSE IF ~Truthy(acc.outPath)
       THEN EnhancedParse(av, i + 1, [acc EXCEPT !.outPath = Str(av[i])])
  ELSE EnhancedParse(av, i + 1, acc)

Enhanced_ParseArgs ==
  /\ pc = "start" /\ fe = "enhanced"
  /\ LET p == EnhancedParse(argv, 1,
                [configPath |-> Null, globalOpenDelimiter |-> Str("{{"),
                 globalCloseDelimiter |-> Str("}}"), templateDir |-> Null,
                 outputDir |-> Null, infoPath |-> Null, templatePath |-> Null,
                 outPath |-> Null, isDirectoryMode |-> Bool(FALSE)])
     IN /\ params' = Obj([configPath |-> p.configPath, templateDir |-> p.templateDir,
                          outputDir |-> p.outputDir, infoPath |-> p.infoPath,
                          templatePath |-> p.templatePath, outPath |-> p.outPath,
                          isDirectoryMode |-> p.isDirectoryMode])
        /\ globalOpenDelimiter' = p.globalOpenDelimiter
        /\ globalCloseDelimiter' = p.globalCloseDelimiter
        /\ IF \/ /\ Truthy(p.isDirectoryMode)
                 /\ (~Truthy(p.infoPath) \/ ~Truthy(p.templateDir) \/ ~Truthy(p.outputDir))
              \/ /\ ~Truthy(p.isDirectoryMode)
                 /\ (~Truthy(p.infoPath) \/ ~Truthy(p.templatePath))
           THEN pc' = "exit" /\ exitCode' = 1 /\ failure' = "usage"
           ELSE pc' = "config" /\ UNCHANGED <<exitCode, failure>>
  /\ lastOutcome' = "none"
  /\ UNCHANGED <<world, config, context, template, output, todo, successCount, files,
                 dirs, stdout, execd, zips, report, lastCall, failed, attempted, taken>>

Enhanced_LoadConfig ==
  /\ pc = "config" /\ fe = "enhanced"
  /\ IF Truthy(Get(params, "configPath"))
     THEN LET configObj == ReadJson(PathOf(Get(params, "configPath")))
          IN IF configObj = Invalid
             THEN /\ pc' = "exit" /\ exitCode' = 2 /\ failure' = "config"
                  /\ UNCHANGED <<config, globalOpenDelimiter, globalCloseDelimiter>>
             ELSE /\ config' = ConfigFrom(configObj)
                  /\ globalOpenDelimiter' =
                       DelimiterFrom(ConfigFrom(configObj), "open", globalOpenDelimiter)
                  /\ globalCloseDelimiter' =
                       DelimiterFrom(ConfigFrom(configObj), "close", globalCloseDelimiter)
                  /\ pc' = "context"
                  /\ UNCHANGED <<exitCode, failure>>
     ELSE /\ pc' = "context"
          /\ UNCHANGED <<config, globalOpenDelimiter, globalCloseDelimiter, exitCode, failure>>
  /\ lastOutcome' = "none"
  /\ UNCHANGED <<world, params, context, template, output, todo, successCount, files,
                 dirs, stdout, execd, zips, report, lastCall, failed, attempted, taken>>

\* which branch of the context loader reads settings out of the document
EmbeddedBranch(jsonObj) ==
  IF Truthy(Get(jsonObj, "templator-js")) THEN "templator-js"
  ELSE IF Truthy(Get(jsonObj, "options")) /\ Truthy(Get(jsonObj, "files")) THEN "legacy"
  ELSE "none"

\* the object the settings are read from
EmbeddedConfig(jsonObj) ==
  IF EmbeddedBranch(jsonObj) = "templator-js" THEN Get(jsonObj, "templator-js")
  ELSE IF EmbeddedBranch(jsonObj) = "legacy" THEN jsonObj
  ELSE EmptyObj

\* StripConfig with the deletes of the legacy branch left out
StripConfig_KeepLegacy(jsonObj) ==
  IF EmbeddedBranch(jsonObj) = "templator-js" THEN Delete(jsonObj, "templator-js")
  ELSE jsonObj

\* delete jsonObj['templator-js']  /  delete jsonObj.options; delete jsonObj.files
StripConfig(jsonObj) ==
  IF EmbeddedBranch(jsonObj) = "templator-js" THEN Delete(jsonObj, "templator-js")
  ELSE IF EmbeddedBranch(jsonObj) = "legacy" THEN Delete(Delete(jsonObj, "options"), "files")
  ELSE jsonObj

\* config.files after the context document was read
EmbeddedFiles(jsonObj, cfg) ==
  IF EmbeddedBranch(jsonObj) = "templator-js"
  THEN IF Truthy(Get(Get(jsonObj, "templator-js"), "files"))
       THEN Put(cfg, "files", Get(Get(jsonObj, "templator-js"), "files"))
       ELSE cfg
  ELSE IF EmbeddedBranch(jsonObj) = "legacy" THEN Put(cfg, "files", Get(jsonObj, "files"))
  ELSE cfg

\* the top-level keys whose content became settings
KeysTaken(jsonObj) ==
  IF EmbeddedBranch(jsonObj) = "templator-js"
  THEN IF \/ Truthy(Get(Get(jsonObj, "templator-js"), "files"))
          \/ DelimiterFrom(Get(jsonObj, "templator-js"), "open", Undefined) # Undefined
          \/ DelimiterFrom(Get(jsonObj, "templator-js"), "close", Undefined) # Undefined
       THEN {"templator-js"} ELSE {}
  ELSE IF EmbeddedBranch(jsonObj) = "legacy" THEN {"options", "files"}
  ELSE {}

Enhanced_LoadContext ==
  /\ pc = "context" /\ fe = "enhanced"
  /\ LET jsonObj == ReadJson(PathOf(Get(params, "infoPath")))
     IN IF jsonObj = Invalid
        THEN /\ pc' = "exit" /\ exitCode' = 3 /\ failure' = "context"
             /\ UNCHANGED <<config, globalOpenDelimiter, globalCloseDelimiter, context, taken>>
        ELSE /\ globalOpenDelimiter' =
                  DelimiterFrom(EmbeddedConfig(jsonObj), "open", globalOpenDelimiter)
             /\ globalCloseDelimiter' =
                  DelimiterFrom(EmbeddedConfig(jsonObj), "close", globalCloseDelimiter)
             /\ config' = EmbeddedFiles(jsonObj, config)
             /\ context' = NormalizeItems(StripConfig(jsonObj))
             /\ taken' = KeysTaken(jsonObj)
             /\ pc' = IF Truthy(Get(params, "isDirectoryMode")) THEN "dir" ELSE "single"
             /\ UNCHANGED <<exitCode, failure>>
  /\ lastOutcome' = "none"
  /\ UNCHANGED <<world, params, template, output, todo, successCount, files, dirs,
                 stdout, execd, zips, report, lastCall, failed, attempted>>

\* RenderTemplate with the output file opened for writing before the template
\* is rendered: a failed render leaves an empty file behind
RenderTemplate_OpenFirst(templateFilePath, outputFilePath, openDel, closeDel, outcome) ==
  LET fileConfig == Or(Get(Get(config, "files"), Basename(templateFilePath)), EmptyObj)
      openDelimiter == Or(Or(Get(fileConfig, "openDelimiter"), openDel), globalOpenDelimiter)
      closeDelimiter == Or(Or(Get(fileConfig, "closeDelimiter"), closeDel), globalCloseDelimiter)
  IN [call |-> IF outcome = "readFail" THEN lastCall
               ELSE [tpl |-> templateFilePath, ctx |-> context, od |-> openDelimiter,
                     cd |-> closeDelimiter, opts |-> TRUE],
      dirs |-> IF outcome # "readFail" /\ Dirname(outputFilePath) # <<>>
               THEN dirs \cup {Dirname(outputFilePath)} ELSE dirs,
      files |-> IF outcome = "ok"
                THEN WriteFile(files, outputFilePath,
                               Rendered(templateFilePath, openDelimiter, closeDelimiter))
                ELSE IF outcome = "renderFail"
                THEN WriteFile(files, outputFilePath, Str(""))
                ELSE files,
      ok |-> outcome = "ok"]

\* renderTemplate(templateFilePath, outputFilePath, ctx, openDel, closeDel): the
\* Mark.up call it makes and the output files and directories it leaves, for
\* each way the body can go
RenderTemplate(templateFilePath, outputFilePath, openDel, closeDel, outcome) ==
  LET fileConfig == Or(Get(Get(config, "files"), Basename(templateFilePath)), EmptyObj)
      openDelimiter == Or(Or(Get(fileConfig, "openDelimiter"), openDel), globalOpenDelimiter)
      closeDelimiter == Or(Or(Get(fileConfig, "closeDelimiter"), closeDel), globalCloseDelimiter)
  IN [call |-> IF outcome = "readFail" THEN lastCall
               ELSE [tpl |-> templateFilePath, ctx |-> context, od |-> openDelimiter,
                     cd |-> closeDelimiter, opts |-> TRUE],
      dirs |-> IF outcome \in {"ok", "writeFail"} /\ Dirname(outputFilePath) # <<>>
               THEN dirs \cup {Dirname(outputFilePath)} ELSE dirs,
      files |-> IF outcome = "ok"
                THEN WriteFile(files, outputFilePath,
                               Rendered(templateFilePath, openDelimiter, closeDelimiter))
                ELSE files,
      ok |-> outcome = "ok"]

FailureOf(outcome) ==
  CASE outcome = "readFail" -> "read"
    [] outcome = "renderFail" -> "render"
    [] outcome = "writeFail" -> "write"
    [] OTHER -> "none"

Enhanced_DirStart ==
  /\ pc = "dir" /\ fe = "enhanced"
  /\ dirs' = dirs \cup {PathOf(Get(params, "outputDir"))}
  /\ IF IsSourceDir(PathOf(Get(params, "templateDir")))
     THEN /\ todo' = ReadDir(PathOf(Get(params, "templateDir")))
          /\ successCount' = 0
          /\ pc' = "loop"
          /\ UNCHANGED <<exitCode, failure>>
     ELSE /\ pc' = "exit" /\ exitCode' = 4 /\ failure' = "read"
          /\ UNCHANGED <<todo, successCount>>
  /\ lastOutcome' = "none"
  /\ UNCHANGED <<world, params, globalOpenDelimiter, globalCloseDelimiter, config,
                 context, template, output, files, stdout, execd, zips, report,
                 lastCall, failed, attempted, taken>>

Enhanced_DirFile ==
  /\ pc = "loop" /\ fe = "enhanced" /\ todo # <<>>
  /\ LET file == Head(todo)
         templateFilePath == Join(PathOf(Get(params, "templateDir")), file)
         outputFilePath == Join(PathOf(Get(params, "outputDir")), file)
         fileConfig == Or(Get(Get(config, "files"), file), EmptyObj)
         openDelimiter == Or(Get(fileConfig, "openDelimiter"), globalOpenDelimiter)
         closeDelimiter == Or(Get(fileConfig, "closeDelimiter"), globalCloseDelimiter)
     IN IF IsSourceDir(templateFilePath)
        THEN /\ lastOutcome' = "none"
             /\ UNCHANGED <<lastCall, dirs, files, successCount, failed, attempted>>
        ELSE \E outcome \in Outcomes :
               LET r == RenderTemplate(templateFilePath, outputFilePath,
                                       openDelimiter, closeDelimiter, outcome)
               IN /\ lastCall' = r.call
                  /\ dirs' = r.dirs
                  /\ files' = r.files
                  /\ successCount' = IF r.ok THEN successCount + 1 ELSE successCount
                  /\ failed' = IF r.ok THEN failed ELSE failed \cup {templateFilePath}
                  /\ attempted' = attempted \cup {templateFilePath}
                  /\ lastOutcome' = outcome
  /\ todo' = Tail(todo)
  /\ UNCHANGED <<world, pc, exitCode, params, globalOpenDelimiter, globalCloseDelimiter,
                 config, context, template, output, stdout, execd, zips, report,
                 failure, taken>>

Enhanced_DirDone ==
  /\ pc = "loop" /\ fe = "enhanced" /\ todo = <<>>
  /\ report' = <<[ok |-> successCount,
                  total |-> Len(ReadDir(PathOf(Get(params, "templateDir"))))]>>
  /\ pc' = "exit" /\ exitCode' = 0
  /\ lastOutcome' = "none"
  /\ UNCHANGED <<world, params, globalOpenDelimiter, globalCloseDelimiter, config,
                 context, template, output, todo, successCount, files, dirs, stdout,
                 execd, zips, lastCall, failure, failed, attempted, taken>>

Enhanced_Single ==
  /\ pc = "single" /\ fe = "enhanced"
  /\ \E outcome \in Outcomes :
       LET r == RenderTemplate(PathOf(Get(params, "templatePath")),
                               PathOf(Or(Get(params, "outPath"), Str("stdout"))),
                               globalOpenDelimiter, globalCloseDelimiter, outcome)
       IN /\ lastCall' = r.call
          /\ dirs' = r.dirs
          /\ files' = r.files
          /\ failure' = FailureOf(outcome)
          /\ lastOutcome' = outcome
  /\ IF ~Truthy(Get(params, "outPath"))
     THEN pc' = "stdout" /\ UNCHANGED exitCode
     ELSE pc' = "exit" /\ exitCode' = 0
  /\ UNCHANGED <<world, params, globalOpenDelimiter, globalCloseDelimiter, config,
                 context, template, output, todo, successCount, stdout, execd, zips,
                 report, failed, attempted, taken>>

\* if (!outPath) { read the template again, render it, process.stdout.write }
\* nothing catches a throw here: node ends the process with status 1
Enhanced_Stdout ==
  /\ pc = "stdout" /\ fe = "enhanced"
  /\ \E outcome \in {"ok", "readFail", "renderFail"} :
       /\ lastCall' = IF outcome = "readFail" THEN lastCall
                      ELSE [tpl |-> PathOf(Get(params, "templatePath")), ctx |-> context,
                            od |-> globalOpenDelimiter, cd |-> globalCloseDelimiter,
                            opts |-> TRUE]
       /\ stdout' = IF outcome = "ok"
                    THEN Append(stdout, Rendered(PathOf(Get(params, "templatePath")),
                                                 globalOpenDelimiter, globalCloseDelimiter))
                    ELSE stdout
       /\ exitCode' = IF outcome = "ok" THEN 0 ELSE 1
       /\ failure' = IF outcome # "ok" THEN FailureOf(outcome) ELSE failure
       /\ lastOutcome' = outcome
  /\ pc' = "exit"
  /\ UNCHANGED <<world, params, globalOpenDelimiter, globalCloseDelimiter, config,
                 context, template, output, todo, successCount, files, dirs, execd,
                 zips, report, failed, attempted, taken>>

(***************************************************************************)
(* Front end "merged": src/unnamed/part_000                                *)
(***************************************************************************)
\* minimist: the key a flag token names; "" for a token that is not a flag
FlagKey(tok) ==
  CASE tok = "--config" -> "config"
    [] tok = "-f" -> "f"
    [] tok = "--configuration" -> "configuration"
    [] tok = "--templates" -> "templates"
    [] tok = "--templateDir" -> "templateDir"
    [] tok = "-t" -> "t"
    [] tok = "--outputDir" -> "outputDir"
    [] tok = "-d" -> "d"
    [] tok = "--destination" -> "destination"
    [] tok = "--openDelimiter" -> "openDelimiter"
    [] tok = "-o" -> "o"
    [] tok = "--closeDelimiter" -> "closeDelimiter"
    [] tok = "-c" -> "c"
    [] tok = "--zip" -> "zip"
    [] tok = "--help" -> "help"
    [] tok = "-h" -> "h"
    [] tok = "--debug" -> "debug"
    [] tok = "--name" -> "name"
    [] OTHER -> ""

\* alias: { f: 'config', h: 'help', o: 'openDelimiter', ... }
AliasPairs == {<<"f", "config">>, <<"h", "help">>, <<"o", "openDelimiter">>,
               <<"c", "closeDelimiter">>, <<"t", "templateDir">>, <<"d", "outputDir">>}
AliasesOf(k) == {k} \cup {a[2] : a \in {b \in AliasPairs : b[1] = k}}
                    \cup {a[1] : a \in {b \in AliasPairs : b[2] = k}}

BoolKeys == {"zip", "help", "debug", "h"}
StringKeys == {"config", "configuration", "openDelimiter", "closeDelimiter", "templateDir",
               "templates", "outputDir", "destination", "f", "o", "c", "t", "d"}

\* minimist's setArg: the key and its aliases get the value
SetArg(acc, k, val) ==
  Obj([x \in DOMAIN acc.v \cup AliasesOf(k) |-> IF x \in AliasesOf(k) THEN val ELSE acc.v[x]])

RECURSIVE Minimist(_, _, _)
Minimist(av, i, acc) ==
  IF i > Len(av) THEN acc
  ELSE IF FlagKey(av[i]) = ""
       THEN Minimist(av, i + 1, Put(acc, "_", Arr(Append(Get(acc, "_").v, Str(av[i])))))
  ELSE IF FlagKey(av[i]) \in BoolKeys
       THEN Minimist(av, i + 1, SetArg(acc, FlagKey(av[i]), Bool(TRUE)))
  ELSE IF i + 1 <= Len(av) /\ FlagKey(av[i + 1]) = ""
       THEN Minimist(av, i + 2, SetArg(acc, FlagKey(av[i]), Str(av[i + 1])))
  ELSE Minimist(av, i + 1, SetArg(acc, FlagKey(av[i]),
                                  IF FlagKey(av[i]) \in StringKeys THEN Str("") ELSE Bool(TRUE)))

\* default: { templates: '.', destination: 'generated' }; booleans start false
MinimistDefaults ==
  Obj([x \in {"_", "templates", "destination", "zip", "help", "debug", "h"} |->
         CASE x = "_" -> Arr(<<>>)
           [] x = "templates" -> Str(".")
           [] x = "destination" -> Str("generated")
           [] OTHER -> Bool(FALSE)])

Merged_ParseArgs ==
  /\ pc = "start" /\ fe = "merged"
  /\ params' = Minimist(argv, 1, MinimistDefaults)
  /\ pc' = "config"
  /\ lastOutcome' = "none"
  /\ UNCHANGED <<world, exitCode, globalOpenDelimiter, globalCloseDelimiter, config,
                 context, template, output, todo, successCount, files, dirs, stdout,
                 execd, zips, report, lastCall, failure, failed, attempted, taken>>

Merged_LoadConfig ==
  /\ pc = "config" /\ fe = "merged"
  /\ LET globalOpen == Or(Get(params, "openDelimiter"), Str("{{"))
         globalClose == Or(Get(params, "closeDelimiter"), Str("}}"))
     IN IF Truthy(Get(params, "config"))
        THEN LET obj == ReadJson(PathOf(Get(params, "config")))
             IN IF obj = Invalid
                THEN /\ pc' = "exit" /\ exitCode' = 2 /\ failure' = "config"
                     /\ globalOpenDelimiter' = globalOpen
                     /\ globalCloseDelimiter' = globalClose
                     /\ UNCHANGED config
                ELSE /\ config' = ConfigFrom(obj)
                     /\ globalOpenDelimiter' = DelimiterFrom(ConfigFrom(obj), "open", globalOpen)
                     /\ globalCloseDelimiter' = DelimiterFrom(ConfigFrom(obj), "close", globalClose)
                     /\ pc' = "context"
                     /\ UNCHANGED <<exitCode, failure>>
        ELSE /\ globalOpenDelimiter' = globalOpen
             /\ globalCloseDelimiter' = globalClose
             /\ pc' = "context"
             /\ UNCHANGED <<config, exitCode, failure>>
  /\ lastOutcome' = "none"
  /\ UNCHANGED <<world, params, context, template, output, todo, successCount, files,
                 dirs, stdout, execd, zips, report, lastCall, failed, attempted, taken>>

\* the keys initContext deletes from the parameters it uses as context
FallbackDeleted == {"_", "config", "configuration", "templates", "templateDir", "outputDir",
                    "destination", "zip", "help", "debug", "openDelimiter", "closeDelimiter"}

\* initContext(params): ok and the context
InitContext(prm) ==
  IF Truthy(Get(prm, "help")) THEN [ok |-> FALSE, context |-> Undefined, why |-> "usage"]
  ELSE IF Truthy(Get(prm, "configuration"))
       THEN IF ReadJson(PathOf(Get(prm, "configuration"))) = Invalid
            THEN [ok |-> FALSE, context |-> Undefined, why |-> "context"]
            ELSE [ok |-> TRUE, context |-> ReadJson(PathOf(Get(prm, "configuration"))),
                  why |-> "none"]
  ELSE [ok |-> TRUE, context |-> Obj([x \in DOMAIN prm.v \ FallbackDeleted |-> prm.v[x]]),
        why |-> "none"]

Merged_InitContext ==
  /\ pc = "context" /\ fe = "merged"
  /\ LET init == InitContext(params)
     IN IF ~init.ok
        THEN /\ pc' = "exit" /\ exitCode' = 1 /\ failure' = init.why
             /\ UNCHANGED context
        ELSE /\ context' = init.context
             /\ pc' = "mode"
             /\ UNCHANGED <<exitCode, failure>>
  /\ lastOutcome' = "none"
  /\ UNCHANGED <<world, params, globalOpenDelimiter, globalCloseDelimiter, config,
                 template, output, todo, successCount, files, dirs, stdout, execd,
                 zips, report, lastCall, failed, attempted, taken>>

SrcInput == PathOf(Or(Get(params, "templateDir"), Get(params, "templates")))
OutDir == PathOf(Or(Get(params, "outputDir"), Get(params, "destination")))

\* the entries of a directory as full paths, in readdir order
Children(dir) == [i \in 1..Len(ReadDir(dir)) |-> Join(dir, ReadDir(dir)[i])]

Merged_Mode ==
  /\ pc = "mode" /\ fe = "merged"
  /\ IF ~SourceExists(SrcInput)
     THEN /\ pc' = "exit" /\ exitCode' = 1 /\ failure' = "read"
          /\ UNCHANGED <<dirs, todo>>
     ELSE IF IsSourceDir(SrcInput)
          THEN /\ dirs' = dirs \cup {OutDir}
               /\ todo' = Children(SrcInput)
               /\ pc' = "walk"
               /\ UNCHANGED <<exitCode, failure>>
          ELSE /\ pc' = "single"
               /\ UNCHANGED <<dirs, todo, exitCode, failure>>
  /\ lastOutcome' = "none"
  /\ UNCHANGED <<world, params, globalOpenDelimiter, globalCloseDelimiter, config,
                 context, template, output, successCount, files, stdout, execd, zips,
                 report, lastCall, failed, attempted, taken>>

IsScript(p) == Basename(p) = "run.script"

\* processTemplateFile(src, dest, ctx): Mark.up is called without options
ProcessTemplateFile(src, dest, outcome) ==
  [call |-> IF outcome = "readFail" THEN lastCall
            ELSE [tpl |-> src, ctx |-> context, od |-> Undefined, cd |-> Undefined,
                  opts |-> FALSE],
   files |-> IF outcome = "ok" /\ ~IsScript(src)
             THEN WriteFile(files, dest, Rendered(src, Undefined, Undefined))
             ELSE files,
   execd |-> IF outcome = "ok" /\ IsScript(src)
             THEN execd \cup {Rendered(src, Undefined, Undefined)}
             ELSE execd,
   ok |-> outcome = "ok"]

\* one entry of generateDir's forEach; a subdirectory is entered before the
\* entries after it
Merged_Walk ==
  /\ pc = "walk" /\ fe = "merged" /\ todo # <<>>
  /\ LET srcPath == Head(todo)
         rel == SubSeq(srcPath, Len(SrcInput) + 1, Len(srcPath))
         destPath == OutDir \o rel
     IN IF IsSourceDir(srcPath)
        THEN /\ dirs' = dirs \cup {destPath}
             /\ todo' = Children(srcPath) \o Tail(todo)
             /\ lastOutcome' = "none"
             /\ UNCHANGED <<lastCall, files, execd, failed, attempted, pc, exitCode, failure>>
        ELSE \E outcome \in Outcomes :
               LET r == ProcessTemplateFile(srcPath, destPath, outcome)
               IN /\ lastCall' = r.call
                  /\ files' = r.files
                  /\ execd' = r.execd
                  /\ attempted' = attempted \cup {srcPath}
                  /\ lastOutcome' = outcome
                  /\ todo' = Tail(todo)
                  /\ IF r.ok
                     THEN UNCHANGED <<failed, pc, exitCode, failure>>
                     ELSE /\ failed' = failed \cup {srcPath}
                          /\ pc' = "exit" /\ exitCode' = 1
                          /\ failure' = FailureOf(outcome)
                  /\ UNCHANGED dirs
  /\ UNCHANGED <<world, params, globalOpenDelimiter, globalCloseDelimiter, config,
                 context, template, output, successCount, stdout, zips, report, taken>>

Merged_WalkDone ==
  /\ pc = "walk" /\ fe = "merged" /\ todo = <<>>
  /\ zips' = IF Truthy(Get(params, "zip")) THEN zips \cup {OutDir} ELSE zips
  /\ pc' = "exit" /\ exitCode' = 0
  /\ lastOutcome' = "none"
  /\ UNCHANGED <<world, params, globalOpenDelimiter, globalCloseDelimiter, config,
                 context, template, output, todo, successCount, files, dirs, stdout,
                 execd, report, lastCall, failure, failed, attempted, taken>>

\* renderTemplate(srcPath, outPath, ctx, openDel, closeDel) of the merged front end
MergedRenderTemplate(srcPath, outPath, openDel, closeDel, outcome) ==
  LET fileCfg == Or(Get(Get(config, "files"), Basename(srcPath)), EmptyObj)
      od == Or(Get(fileCfg, "openDelimiter"), openDel)
      cd == Or(Get(fileCfg, "closeDelimiter"), closeDel)
  IN [call |-> IF outcome = "readFail" THEN lastCall
               ELSE [tpl |-> srcPath, ctx |-> context, od |-> od, cd |-> cd, opts |-> TRUE],
      stdout |-> IF outcome = "ok" /\ outPath = <<"stdout">>
                 THEN Append(stdout, Rendered(srcPath, od, cd)) ELSE stdout,
      dirs |-> IF outcome \in {"ok", "writeFail"} /\ outPath # <<"stdout">>
                  /\ Dirname(outPath) # <<>>
               THEN dirs \cup {Dirname(outPath)} ELSE dirs,
      files |-> IF outcome = "ok" /\ outPath # <<"stdout">>
                THEN WriteFile(files, outPath, Rendered(srcPath, od, cd)) ELSE files,
      ok |-> outcome = "ok"]

Merged_Single ==
  /\ pc = "single" /\ fe = "merged"
  /\ \E outcome \in Outcomes :
       LET outFile == Or(Or(Get(params, "destination"), Get(params, "outputDir")), Str("stdout"))
           r == MergedRenderTemplate(SrcInput, PathOf(outFile), globalOpenDelimiter,
                                     globalCloseDelimiter, outcome)
       IN /\ lastCall' = r.call
          /\ stdout' = r.stdout
          /\ dirs' = r.dirs
          /\ files' = r.files
          /\ failure' = FailureOf(outcome)
          /\ lastOutcome' = outcome
  /\ pc' = "exit" /\ exitCode' = 0
  /\ UNCHANGED <<world, params, globalOpenDelimiter, globalCloseDelimiter, config,
                 context, template, output, todo, successCount, execd, zips, report,
                 failed, attempted, taken>>

Next ==
  \/ Simple_ParseArgs
  \/ Simple_LoadContext
  \/ Simple_ReadTemplate
  \/ Simple_Render
  \/ Simple_Write
  \/ Enhanced_ParseArgs
  \/ Enhanced_LoadConfig
  \/ Enhanced_LoadContext
  \/ Enhanced_DirStart
  \/ Enhanced_DirFile
  \/ Enhanced_DirDone
  \/ Enhanced_Single
  \/ Enhanced_Stdout
  \/ Merged_ParseArgs
  \/ Merged_LoadConfig
  \/ Merged_InitContext
  \/ Merged_Mode
  \/ Merged_Walk
  \/ Merged_WalkDone
  \/ Merged_Single

Spec == Init /\ [][Next]_vars

(***************************************************************************)
(* Vocabulary of the properties.                                           *)
(***************************************************************************)
Rendering == lastCall.tpl # <<>>
NonEmptyString(j) == j.t = "string" /\ j.v # ""

\* the roots of a directory run, and which kind of run the command line asks for
TemplateRoot == IF fe = "enhanced" THEN PathOf(Get(params, "templateDir")) ELSE SrcInput
OutputRoot == IF fe = "enhanced" THEN PathOf(Get(params, "outputDir")) ELSE OutDir
IsDirCommand ==
  \/ fe = "enhanced" /\ Truthy(Get(params, "isDirectoryMode"))
  \/ fe = "merged" /\ Truthy(Get(params, "templateDir"))
IsSingleCommand == ~IsDirCommand

\* the regular files of the template directory, as paths relative to it
TopRel == {<<TopFiles[i]>> : i \in 1..Len(TopFiles)}
SubRel == {<<"sub", SubFiles[i]>> : i \in 1..Len(SubFiles)}
AllRel == TopRel \cup SubRel

\* an output path was given on the command line
OutputPathGiven ==
  IF fe = "merged"
  THEN \E i \in 1..Len(argv) : /\ argv[i] \in {"--destination", "--outputDir", "-d"}
                               /\ i < Len(argv) /\ argv[i + 1] # ""
  ELSE Truthy(Get(params, "outPath"))

\* the context came from the context document
ContextFromDocument ==
  /\ infoDoc # Invalid
  /\ fe = "merged" => Truthy(Get(params, "configuration"))

\* the value a delimiter flag carries on the command line, if it carries one
FlagValue(names) ==
  IF \E i \in 1..Len(argv) : argv[i] \in names /\ i < Len(argv)
  THEN Str(argv[(CHOOSE i \in 1..Len(argv) : argv[i] \in names /\ i < Len(argv)) + 1])
  ELSE Undefined
ConfigFileGiven == \E i \in 1..Len(argv) : argv[i] \in {"-f", "--config"} /\ i < Len(argv)
FromConfigFile(k) ==
  IF ConfigFileGiven /\ configDoc # Invalid
  THEN DelimiterFrom(ConfigFrom(configDoc), k, Undefined) ELSE Undefined
FromContextBlock(k) ==
  IF ContextFromDocument THEN DelimiterFrom(EmbeddedConfig(infoDoc), k, Undefined)
  ELSE Undefined
ResolvedOpen ==
  Or(FromContextBlock("open"),
     Or(FromConfigFile("open"), Or(FlagValue({"-o", "--openDelimiter"}), Str("{{"))))
ResolvedClose ==
  Or(FromContextBlock("close"),
     Or(FromConfigFile("close"), Or(FlagValue({"-c", "--closeDelimiter"}), Str("}}"))))

\* the exit statuses a front end can end with after a failure of a category
SimpleExitStatuses(category) ==
  CASE category = "context" -> {2}
    [] category = "read" -> {3}
    [] category = "render" -> {4}
    [] category = "write" -> {5}
    [] OTHER -> {}
EnhancedExitStatuses(category) ==
  CASE category = "config" -> {2}
    [] category = "context" -> {3}
    [] category = "read" -> {0, 1, 4}
    [] category = "render" -> {0, 1}
    [] category = "write" -> {0}
    [] OTHER -> {}
MergedExitStatuses(category) ==
  CASE category = "config" -> {2}
    [] category = "context" -> {1}
    [] category = "read" -> {0, 1}
    [] category = "render" -> {0, 1}
    [] category = "write" -> {0, 1}
    [] OTHER -> {}
ExitStatuses(f, category) ==
  CASE f = "simple" -> SimpleExitStatuses(category)
    [] f = "enhanced" -> EnhancedExitStatuses(category)
    [] OTHER -> MergedExitStatuses(category)
Categories == {"config", "context", "read", "render", "write"}

(***************************************************************************)
(* C1. Whenever a template is rendered and the per-file mapping has an     *)
(* entry for its base name with an open and a close delimiter, the pair    *)
(* handed to the renderer is that entry's pair.                            *)
(***************************************************************************)
C1_PerFilePairUsed ==
  Rendering =>
    LET entry == Get(Get(config, "files"), Basename(lastCall.tpl))
    IN (Truthy(Get(entry, "openDelimiter")) /\ Truthy(Get(entry, "closeDelimiter")))
         => /\ lastCall.od = Get(entry, "openDelimiter")
            /\ lastCall.cd = Get(entry, "closeDelimiter")

(***************************************************************************)
(* C2. A run ends with status 0 exactly when nothing failed, and a failure *)
(* of one of the five categories ends it with a non-zero status that the   *)
(* front end gives to no other category.                                   *)
(***************************************************************************)
C2_ExitStatusPerCategory ==
  (pc = "exit" /\ failure # "usage") =>
    /\ (exitCode = 0) <=> (failure = "none")
    /\ failure \in Categories =>
         \A other \in Categories \ {failure} : exitCode \notin ExitStatuses(fe, other)

(***************************************************************************)
(* C3. A directory run in which a template failed still hands every file  *)
(* of the directory to the per-file code and ends with a report of the     *)
(* count of successes.                                                     *)
(***************************************************************************)
C3_BatchContinuesAfterFailure ==
  (pc = "exit" /\ failed # {}) =>
    /\ \A rel \in TopRel : TemplateRoot \o rel \in attempted
    /\ report # <<>>

(***************************************************************************)
(* C4. The context handed to the renderer has an items field that is a     *)
(* sequence whenever the context document had an items field: a sequence   *)
(* is passed through, any other value v becomes [v].                       *)
(***************************************************************************)
C4_ItemsIsSequence ==
  (Rendering /\ ContextFromDocument /\ "items" \in Keys(infoDoc)) =>
    /\ Get(lastCall.ctx, "items").t = "array"
    /\ Get(lastCall.ctx, "items") =
         IF Get(infoDoc, "items").t = "array" THEN Get(infoDoc, "items")
         ELSE Arr(<<Get(infoDoc, "items")>>)

(***************************************************************************)
(* C5. A single-file run that succeeds without an output path writes the   *)
(* result to standard output and creates no file; with an output path it   *)
(* writes that file and nothing to standard output.                        *)
(***************************************************************************)
C5_StdoutOrFile ==
  (pc = "exit" /\ exitCode = 0 /\ failure = "none" /\ IsSingleCommand /\ Rendering) =>
    IF OutputPathGiven
    THEN stdout = <<>> /\ DOMAIN files # {}
    ELSE Len(stdout) = 1 /\ DOMAIN files = {}

(***************************************************************************)
(* C6. After a directory run in which no file failed, the output directory *)
(* holds, for every regular file at relative path p at any depth of the    *)
(* template directory, the rendering of that template at p, and no other   *)
(* file.                                                                   *)
(***************************************************************************)
C6_OutputMirrorsTemplates ==
  (pc = "exit" /\ exitCode = 0 /\ failed = {} /\ IsDirCommand /\ attempted # {}) =>
    /\ DOMAIN files = {OutputRoot \o rel : rel \in AllRel}
    /\ \A rel \in AllRel :
         OutputRoot \o rel \in DOMAIN files
           => files[OutputRoot \o rel].v[1] = TemplateRoot \o rel

(***************************************************************************)
(* C7. A step in which the render call fails leaves the output files,      *)
(* the output directories, standard output and the executed scripts as     *)
(* they were.                                                              *)
(***************************************************************************)
C7_FailedRenderWritesNothing ==
  [][lastOutcome' = "renderFail" =>
       /\ files' = files
       /\ dirs' = dirs
       /\ stdout' = stdout
       /\ execd' = execd]_vars

C7_Witness ==
  /\ lastOutcome = "renderFail"
  /\ Rendering
  /\ fe = "enhanced"
  /\ DOMAIN files # {}

(***************************************************************************)
(* C8. Every delimiter pair handed to the renderer is two non-empty        *)
(* strings.                                                                *)
(***************************************************************************)
C8_DelimitersNonEmpty ==
  Rendering => NonEmptyString(lastCall.od) /\ NonEmptyString(lastCall.cd)

(***************************************************************************)
(* C9. In the front ends that read a config file, when templates are      *)
(* rendered, each of the global open and close delimiters is the non-empty *)
(* value of the highest source that has one: the block embedded in the     *)
(* context document, the config file, the CLI flag, the default.           *)
(***************************************************************************)
C9_GlobalPairPrecedence ==
  (Rendering /\ fe \in {"enhanced", "merged"}) =>
    /\ globalOpenDelimiter = ResolvedOpen
    /\ globalCloseDelimiter = ResolvedClose

(***************************************************************************)
(* C10. When the loader read settings out of the context document, the     *)
(* keys it read them from are absent from the context of every render      *)
(* call, and every other top-level field except items is handed over       *)
(* unchanged.                                                              *)
(***************************************************************************)
C10_ConfigNotTemplateData ==
  (Rendering /\ taken # {}) =>
    /\ taken \cap Keys(lastCall.ctx) = {}
    /\ \A k \in Keys(infoDoc) \ (taken \cup {"items"}) :
         k \in Keys(lastCall.ctx) /\ Get(lastCall.ctx, k) = Get(infoDoc, k)

C10_Witness ==
  /\ Rendering
  /\ taken = {"options", "files"}
  /\ "name" \in Keys(lastCall.ctx)

====
